---- MODULE Spec2Model ----
(***************************************************************************)
(* Model of the checkout client: the mock authentication store            *)
(* (MockAuthService), the payment-gateway adapter (RazorpayService) and   *)
(* the QR countdown of the StreamlinedUPIPayment component.                *)
(***************************************************************************)
EXTENDS Integers, Sequences, FiniteSets, Bags, TLC

\* ------------------------------------------------------------------------
\* Bounds of the model
\* ------------------------------------------------------------------------
\* Date.now() values the model draws from: 1..MaxTime
MaxTime == 1
\* number of RazorpayService calls one page load makes in the model
MaxCalls == 2
\* QRCode.toDataURL calls in flight at once in the model
MaxQrPending == 2
\* the clicks on the pay button of StreamlinedRazorpayUPI
MaxClicks == 2
\* the values the amount and orderId props take while the component is mounted
MaxProps == 2
\* the payment attempts started in StreamlinedUPIPayment
MaxAttempts == 2

VARIABLES
    usersItem,      \* localStorage[USERS_STORAGE_KEY]
    currentItem,    \* localStorage[CURRENT_USER_KEY]
    authLast,       \* the last auth call: its arguments and its outcome
    okRegs,         \* history: the emails register has succeeded for
    regLog,         \* history: email, password and returned id of every
                    \* register call that succeeded
    sinceLogout     \* history: logout has returned and no register or login
                    \* has succeeded since

authVars == <<usersItem, currentItem, authLast, okRegs, regLog, sinceLogout>>

VARIABLES
    configValid,        \* what validateRazorpayConfig() returns on this page
    isRazorpayLoaded,   \* RazorpayService.isRazorpayLoaded
    scripts,            \* the script elements appended to document.body
    calls               \* the RazorpayService calls made so far, in order

payVars == <<configValid, isRazorpayLoaded, scripts, calls>>

VARIABLES
    paymentMode,    \* StreamlinedUPIPayment: 'selection' | 'apps' | 'qr'
    qrCodeUrl,
    timer,
    isExpired,
    interval,       \* the setInterval of the countdown effect is running
    qrPending,      \* QRCode.toDataURL calls that have not answered yet
    ticks,          \* history: ticks delivered since QR mode was entered
    errors,         \* history: onPaymentError was called by the QR generator
    leftHow,        \* history: how QR mode was left so far: 'partway', 'expired'
    upiProcessing,  \* StreamlinedUPIPayment's isProcessing
    upiAttempts     \* the payment attempts started in the component, in order

upiVars == <<paymentMode, qrCodeUrl, timer, isExpired, interval, qrPending, ticks,
            errors, leftHow, upiProcessing, upiAttempts>>

VARIABLES
    razorpayOrder,   \* StreamlinedRazorpayUPI: the order the server issued, or none
    orderFetch,      \* the create-order requests in flight: the props they were sent for
    propsVersion,    \* the amount and orderId props: 1 at mount, +1 at every change
    isProcessing,
    windowRazorpay,  \* window.Razorpay is defined
    attempts,        \* the clicks on the pay button so far, in order
    callbacks        \* the onPaymentSuccess and onPaymentError calls so far, as a bag

rzpVars == <<razorpayOrder, orderFetch, propsVersion, isProcessing, windowRazorpay,
            attempts, callbacks>>

vars == <<authVars, payVars, upiVars, rzpVars>>

\* ------------------------------------------------------------------------
\* Values
\* ------------------------------------------------------------------------
\* a localStorage key that is absent: getItem returns null
Null == [kind |-> "null"]
\* the value of an optional field that was not given
Undefined == <<"undefined">>

\* Every field value is a tuple; a string that is case-folded is the tuple of
\* its characters, so that toLowerCase is computed.
Upper == {"A", "B", "X"}
Lower == [c \in Upper |-> CASE c = "A" -> "a" [] c = "B" -> "b" [] c = "X" -> "x"]

\* String.prototype.toLowerCase
ToLowerCase(s) == [i \in 1..Len(s) |-> IF s[i] \in Upper THEN Lower[s[i]] ELSE s[i]]

Emails == { <<"a", "@", "x">>, <<"A", "@", "X">>, <<"b", "@", "x">> }
Passwords == {<<"secret">>, <<"Secret">>}
Names == {<<"Ann">>}
Phones == {<<"98">>}
Times == 1..MaxTime
Rands == {"k3x9", "q7z1"}

USERS_STORAGE_KEY == "interoo_users"
CURRENT_USER_KEY == "interoo_current_user"
AVATAR == <<"https://images.pexels.com/photos/1043471/pexels-photo-1043471.jpeg">>

ERR_EXISTS == "User with this email already exists"
ERR_INVALID == "Invalid email or password"

\* How the storage behaves during one call: which of its operations throw.
NoFault == [getItem |-> FALSE, setUsers |-> FALSE, setCurrent |-> FALSE,
            removeItem |-> FALSE]
\* The storage environment of SpecAuth: every operation succeeds.
StorageEnvs == {NoFault}
\* The storage environment of SpecAuthFaulty: any of the operations may throw.
FaultyEnvs == [getItem : BOOLEAN, setUsers : BOOLEAN, setCurrent : BOOLEAN,
               removeItem : BOOLEAN]

\* stored text that JSON.parse rejects
Garbage == [kind |-> "garbage"]
\* stored text that parses to a value that is not an array, such as '{}'
NotAnArray == [kind |-> "jsonObject"]
\* the TypeError of calling find or some on a value that is not an array
ERR_TYPE == "users.find is not a function"

\* ------------------------------------------------------------------------
\* JSON
\* ------------------------------------------------------------------------
\* o.k for an object that may lack the key
Field(o, k) == IF k \in DOMAIN o THEN o[k] ELSE Undefined

\* JSON.stringify of an object drops the keys whose value is undefined
StripUndefined(o) ==
    LET keep == {k \in DOMAIN o : o[k] # Undefined}
    IN  [k \in keep |-> o[k]]

JSONStringifyObject(o) == [kind |-> "json", val |-> StripUndefined(o)]
JSONStringifyList(l) ==
    [kind |-> "json", val |-> [i \in 1..Len(l) |-> StripUndefined(l[i])]]
JSONParse(text) == text.val

\* ------------------------------------------------------------------------
\* MockAuthService
\* ------------------------------------------------------------------------
\* mutant: the read of the user list answers the empty list
getStoredUsers_Empty(env) == <<>>

getStoredUsers(env) ==
    IF env.getItem THEN <<>>
    ELSE IF usersItem = Null THEN <<>>
    ELSE IF usersItem = Garbage THEN <<>>
    ELSE JSONParse(usersItem)

\* what getStoredUsers returns is an array: it has find and some
StoredIsArray(env) == env.getItem \/ usersItem # NotAnArray

\* mutant: saveUsers writes nothing
saveUsers_NoPersist(users, env) == usersItem

\* mutant: saveUsers writes the last record of the list alone
saveUsers_OnlyNew(users, env) == JSONStringifyList(<<users[Len(users)]>>)

\* the value of localStorage[USERS_STORAGE_KEY] after saveUsers(users)
saveUsers(users, env) ==
    IF env.setUsers THEN usersItem ELSE JSONStringifyList(users)

userForStorage(user) ==
    [id |-> Field(user, "id"),
     email |-> Field(user, "email"),
     name |-> Field(user, "fullName"),
     avatar |-> Field(user, "avatar"),
     mobileNumber |-> Field(user, "mobileNumber")]

\* mutant: a session that exists is not overwritten
setCurrentUser_KeepExisting(user, env) ==
    IF env.setCurrent \/ currentItem # Null
    THEN currentItem
    ELSE JSONStringifyObject(userForStorage(user))

\* the value of localStorage[CURRENT_USER_KEY] after setCurrentUser(user)
setCurrentUser(user, env) ==
    IF env.setCurrent THEN currentItem ELSE JSONStringifyObject(userForStorage(user))

getCurrentUserFrom(item) ==
    IF item = Null THEN Null
    ELSE IF item = Garbage THEN Null
    ELSE JSONParse(item)
getCurrentUser == getCurrentUserFrom(currentItem)

\* mutant: the emails are compared as written, without toLowerCase
EmailMatches_ExactCase(user, email) == Field(user, "email") = email

\* users.find(user => user.email.toLowerCase() === email.toLowerCase())
EmailMatches(user, email) == ToLowerCase(Field(user, "email")) = ToLowerCase(email)

\* mutant: the password is not compared
LoginMatches_EmailOnly(user, email, password) ==
    ToLowerCase(Field(user, "email")) = ToLowerCase(email)

\* users.find(...) of login: email ignoring case and password exactly
LoginMatches(user, email, password) ==
    /\ ToLowerCase(Field(user, "email")) = ToLowerCase(email)
    /\ Field(user, "password") = password

\* Array.prototype.find over the indexes that pass the test: the first one (0: none)
First(hits) == IF hits = {} THEN 0 ELSE CHOOSE i \in hits : \A j \in hits : i <= j

userExists(email) ==
    LET users == getStoredUsers(NoFault)
    IN  \E i \in 1..Len(users) : EmailMatches(users[i], email)

NewUser(email, password, fullName, mobileNumber, t, r, t2) ==
    [id |-> <<"user_", t, r>>,
     email |-> ToLowerCase(email),
     password |-> password,
     fullName |-> fullName,
     mobileNumber |-> mobileNumber,
     avatar |-> AVATAR,
     createdAt |-> <<"iso", t2>>]

Call(op, email, password, outcome, error, ret) ==
    [op |-> op, email |-> email, password |-> password, outcome |-> outcome,
     error |-> error, ret |-> ret, priorRegs |-> okRegs,
     priorCurrent |-> currentItem]

Register(email, password, fullName, mobileNumber, t, r, t2, env) ==
    LET users == getStoredUsers(env)
        existing == First({i \in 1..Len(users) : EmailMatches(users[i], email)})
        newUser == NewUser(email, password, fullName, mobileNumber, t, r, t2)
    IN  IF ~StoredIsArray(env)
        THEN /\ authLast' = Call("register", email, password, "throw", ERR_TYPE, Null)
             /\ UNCHANGED <<usersItem, currentItem, okRegs, regLog, sinceLogout>>
        ELSE IF existing # 0
        THEN /\ authLast' = Call("register", email, password, "throw", ERR_EXISTS, Null)
             /\ UNCHANGED <<usersItem, currentItem, okRegs, regLog, sinceLogout>>
        ELSE /\ usersItem' = saveUsers(Append(users, newUser), env)
             /\ currentItem' = setCurrentUser(newUser, env)
             /\ authLast' = Call("register", email, password, "ok", "", newUser)
             /\ okRegs' = okRegs \cup {email}
             /\ regLog' = regLog \cup {[email |-> email, password |-> password,
                                         id |-> newUser.id]}
             /\ sinceLogout' = FALSE

\* mutant: a login that fails removes the session key
Login_FailLogsOut(email, password, env) ==
    LET users == getStoredUsers(env)
        found == First({i \in 1..Len(users) : LoginMatches(users[i], email, password)})
    IN  IF found = 0
        THEN /\ authLast' = Call("login", email, password, "throw", ERR_INVALID, Null)
             /\ currentItem' = Null
             /\ UNCHANGED <<usersItem, okRegs, regLog, sinceLogout>>
        ELSE /\ currentItem' = setCurrentUser(users[found], env)
             /\ authLast' = Call("login", email, password, "ok", "", users[found])
             /\ sinceLogout' = FALSE
             /\ UNCHANGED <<usersItem, okRegs, regLog>>

Login(email, password, env) ==
    LET users == getStoredUsers(env)
        found == First({i \in 1..Len(users) : LoginMatches(users[i], email, password)})
    IN  IF ~StoredIsArray(env)
        THEN /\ authLast' = Call("login", email, password, "throw", ERR_TYPE, Null)
             /\ UNCHANGED <<usersItem, currentItem, okRegs, regLog, sinceLogout>>
        ELSE IF found = 0
        THEN /\ authLast' = Call("login", email, password, "throw", ERR_INVALID, Null)
             /\ UNCHANGED <<usersItem, currentItem, okRegs, regLog, sinceLogout>>
        ELSE /\ currentItem' = setCurrentUser(users[found], env)
             /\ authLast' = Call("login", email, password, "ok", "", users[found])
             /\ sinceLogout' = FALSE
             /\ UNCHANGED <<usersItem, okRegs, regLog>>

\* mutant: logout removes the user list's key instead of the session's
Logout_WrongKey(env) ==
    /\ usersItem' = IF env.removeItem THEN usersItem ELSE Null
    /\ authLast' = Call("logout", <<>>, <<>>, "ok", "", Null)
    /\ sinceLogout' = TRUE
    /\ UNCHANGED <<currentItem, okRegs, regLog>>

Logout(env) ==
    /\ currentItem' = IF env.removeItem THEN currentItem ELSE Null
    /\ authLast' = Call("logout", <<>>, <<>>, "ok", "", Null)
    /\ sinceLogout' = TRUE
    /\ UNCHANGED <<usersItem, okRegs, regLog>>

InitAuth ==
    /\ usersItem = Null
    /\ currentItem = Null
    /\ okRegs = {}
    /\ regLog = {}
    /\ sinceLogout = FALSE
    /\ authLast = [op |-> "none", email |-> <<>>, password |-> <<>>, outcome |-> "ok",
                   error |-> "", ret |-> Null, priorRegs |-> {},
                   priorCurrent |-> Null]

DoRegister ==
    \E email \in Emails, password \in Passwords, fullName \in Names,
       mobileNumber \in Phones \cup {Undefined}, t \in Times, r \in Rands,
       t2 \in Times, env \in StorageEnvs :
        /\ t <= t2
        /\ Register(email, password, fullName, mobileNumber, t, r, t2, env)
        /\ UNCHANGED <<payVars, upiVars, rzpVars>>

DoLogin ==
    \E email \in Emails, password \in Passwords, env \in StorageEnvs :
        /\ Login(email, password, env)
        /\ UNCHANGED <<payVars, upiVars, rzpVars>>

DoLogout ==
    \E env \in StorageEnvs :
        /\ Logout(env)
        /\ UNCHANGED <<payVars, upiVars, rzpVars>>

\* MockAuthService over a storage whose operations may throw
\* the inputs of the calls made over the faulty storage
FaultyEmails == { <<"a", "@", "x">>, <<"A", "@", "X">> }
FaultyPasswords == {<<"secret">>}

DoRegisterFaulty ==
    \E email \in FaultyEmails, password \in FaultyPasswords, fullName \in Names,
       mobileNumber \in {Undefined}, t \in {1}, r \in {"k3x9"},
       t2 \in {1}, env \in FaultyEnvs :
        /\ ~env.removeItem
        /\ Register(email, password, fullName, mobileNumber, t, r, t2, env)
        /\ UNCHANGED <<payVars, upiVars, rzpVars>>

DoLoginFaulty ==
    \E email \in FaultyEmails, password \in FaultyPasswords, env \in FaultyEnvs :
        /\ ~env.removeItem /\ ~env.setUsers
        /\ Login(email, password, env)
        /\ UNCHANGED <<payVars, upiVars, rzpVars>>

DoLogoutFaulty ==
    \E env \in FaultyEnvs :
        /\ ~env.getItem /\ ~env.setUsers /\ ~env.setCurrent
        /\ Logout(env)
        /\ UNCHANGED <<payVars, upiVars, rzpVars>>

\* MockAuthService.userExists(email)
DoUserExists ==
    \E email \in FaultyEmails, env \in FaultyEnvs :
        /\ ~env.removeItem /\ ~env.setUsers /\ ~env.setCurrent
        /\ authLast' =
              IF ~StoredIsArray(env)
              THEN Call("userExists", email, <<>>, "throw", ERR_TYPE, Null)
              ELSE Call("userExists", email, <<>>, "ok", "",
                        [exists |-> ~env.getItem /\ userExists(email)])
        /\ UNCHANGED <<usersItem, currentItem, okRegs, regLog, sinceLogout>>
        /\ UNCHANGED <<payVars, upiVars, rzpVars>>

\* MockAuthService.getCurrentUser()
DoGetCurrentUser ==
    \E env \in FaultyEnvs :
        /\ ~env.removeItem /\ ~env.setUsers /\ ~env.setCurrent
        /\ authLast' = Call("getCurrentUser", <<>>, <<>>, "ok", "",
                            IF env.getItem THEN Null ELSE getCurrentUser)
        /\ UNCHANGED <<usersItem, currentItem, okRegs, regLog, sinceLogout>>
        /\ UNCHANGED <<payVars, upiVars, rzpVars>>

\* something other than MockAuthService writes the user list's key
CorruptUsers ==
    \E text \in {Garbage, NotAnArray} :
        /\ usersItem' = text
        /\ UNCHANGED <<currentItem, authLast, okRegs, regLog, sinceLogout>>
        /\ UNCHANGED <<payVars, upiVars, rzpVars>>

\* something other than MockAuthService writes the session's key
CorruptCurrent ==
    /\ currentItem' = Garbage
    /\ UNCHANGED <<usersItem, authLast, okRegs, regLog, sinceLogout>>
    /\ UNCHANGED <<payVars, upiVars, rzpVars>>

\* ------------------------------------------------------------------------
\* RazorpayService
\* ------------------------------------------------------------------------
Amounts == {100, 250}
OrderIds == {"ORD-1"}
Customers == {[name |-> "Test Customer", email |-> "test@example.com",
               contact |-> "9999999999"]}
\* Math.random().toString(36).substring(2, 8), as characters
PayRands == {<<"a", "x">>}
UpperOf == [c \in {"a", "b", "x"} |->
                CASE c = "a" -> "A" [] c = "b" -> "B" [] c = "x" -> "X"]

\* String.prototype.toUpperCase
ToUpperCase(s) ==
    [i \in 1..Len(s) |-> IF s[i] \in DOMAIN UpperOf THEN UpperOf[s[i]] ELSE s[i]]

\* RAZORPAY_CONFIG.currency
CURRENCY == "INR"

ERR_SCRIPT == "Failed to load Razorpay payment gateway"
ERR_CONFIG == "Razorpay configuration is invalid"
ERR_CANCELLED == "Payment cancelled by user"
\* the messages of the errors the gateway object throws
ERR_CONSTRUCTOR == "Razorpay is not a constructor"
ERR_OPEN == "open failed"

\* what the gateway object does when it is constructed and opened
Gateways == {"opens", "constructorThrows", "openThrows"}

Nothing == [none |-> TRUE]

\* mutant: the memo flag is not consulted
ScriptNeeded_NoMemo == TRUE

\* mutant: a call made while a script element is loading waits for that element
ScriptNeeded_Coalesced ==
    ~isRazorpayLoaded /\ \A i \in 1..Len(scripts) : scripts[i] # "loading"

\* loadRazorpayScript appends a script element unless the flag is set
ScriptNeeded == ~isRazorpayLoaded

\* a call that has just been made
NewCall(kind, amount, customerInfo, orderId) ==
    [kind |-> kind, pc |-> "start", amount |-> amount, customerInfo |-> customerInfo,
     orderId |-> orderId,
     script |-> 0,              \* the script element this call appended (0: none)
     loaded |-> "pending",      \* what its loadRazorpayScript promise resolved with
     afterTrue |-> \E i \in 1..Len(calls) : calls[i].loaded = "true",
     flagAtCall |-> isRazorpayLoaded,   \* history: the flag when the call was made
     order |-> Nothing,         \* what createOrder returned
     modal |-> "none",          \* the gateway modal: none, open, completed, dismissed
     raised |-> "none",         \* the exception raised during the run
     settled |-> "pending",     \* the returned promise: pending, resolved, rejected
     value |-> Nothing]         \* what it resolved or rejected with

\* the catch block of processUPIPayment
Caught(c, what, message, t, t2) ==
    [c EXCEPT !.pc = "done", !.raised = what, !.settled = "resolved",
              !.value = [success |-> FALSE,
                         transactionId |-> <<"UPI_FAILED_", t>>,
                         paymentMethod |-> "UPI",
                         amount |-> c.amount,
                         timestamp |-> t2,
                         errorMessage |-> message]]

\* mutant: the answer of loadRazorpayScript is not tested
UPIAfterScript_NoCheck(c, scriptLoaded, t, t2) ==
    IF ~configValid THEN Caught(c, "config", ERR_CONFIG, t, t2)
    ELSE [c EXCEPT !.pc = "orderDelay"]

\* processUPIPayment from the answer of loadRazorpayScript to createOrder's delay
UPIAfterScript(c, scriptLoaded, t, t2) ==
    IF ~scriptLoaded THEN Caught(c, "script", ERR_SCRIPT, t, t2)
    ELSE IF ~configValid THEN Caught(c, "config", ERR_CONFIG, t, t2)
    ELSE [c EXCEPT !.pc = "orderDelay"]

\* mutant: the amount is not converted to paise
MockOrder_Rupees(orderRequest, t, r, t2) ==
    [id |-> <<"order_", t, r>>,
     entity |-> "order",
     amount |-> orderRequest.amount,
     amount_paid |-> 0,
     amount_due |-> orderRequest.amount,
     currency |-> orderRequest.currency,
     receipt |-> orderRequest.receipt,
     status |-> "created",
     attempts |-> 0,
     notes |-> orderRequest.notes,
     created_at |-> t2 \div 1000]

\* the order createOrder returns after its delay
MockOrder(orderRequest, t, r, t2) ==
    [id |-> <<"order_", t, r>>,
     entity |-> "order",
     amount |-> orderRequest.amount * 100,
     amount_paid |-> 0,
     amount_due |-> orderRequest.amount * 100,
     currency |-> orderRequest.currency,
     receipt |-> orderRequest.receipt,
     status |-> "created",
     attempts |-> 0,
     notes |-> orderRequest.notes,
     created_at |-> t2 \div 1000]

OrderRequest(c) ==
    [amount |-> c.amount, currency |-> CURRENCY, receipt |-> c.orderId,
     notes |-> [payment_method |-> "upi", customer_name |-> c.customerInfo.name]]

\* the handler callback of the gateway object
HandlerResult(c, t, r, t2) ==
    [success |-> TRUE,
     transactionId |-> <<"UPI_", t, ToUpperCase(r)>>,
     razorpayPaymentId |-> "pay_1",
     razorpayOrderId |-> c.order.id,
     razorpaySignature |-> "sig_1",
     paymentMethod |-> "UPI",
     amount |-> c.amount,
     timestamp |-> t2]

\* mutant: dismissal rejects the promise
DismissSettles_Reject(c, t, t2) ==
    [c EXCEPT !.pc = "done", !.modal = "dismissed", !.settled = "rejected",
              !.value = [error |-> ERR_CANCELLED]]

\* the modal.ondismiss callback of the gateway object
DismissSettles(c, t, t2) ==
    [c EXCEPT !.pc = "done", !.modal = "dismissed", !.settled = "resolved",
              !.value = [success |-> FALSE,
                         transactionId |-> <<"UPI_CANCELLED_", t>>,
                         paymentMethod |-> "UPI",
                         amount |-> c.amount,
                         timestamp |-> t2,
                         errorMessage |-> ERR_CANCELLED]]

\* mutant: the result carries the amount in paise
CODResult_Paise(c, t, r, t2) ==
    [success |-> TRUE, transactionId |-> <<"COD_", t, ToUpperCase(r)>>,
     paymentMethod |-> "Cash on Delivery", amount |-> c.amount * 100, timestamp |-> t2]

\* what processCODPayment returns
CODResult(c, t, r, t2) ==
    [success |-> TRUE,
     transactionId |-> <<"COD_", t, ToUpperCase(r)>>,
     paymentMethod |-> "Cash on Delivery",
     amount |-> c.amount,
     timestamp |-> t2]

\* the call that waits for script element i
Owner(i) == CHOOSE k \in 1..Len(calls) : calls[k].script = i

\* RazorpayService.loadRazorpayScript()
CallLoadRazorpayScript ==
    /\ Len(calls) < MaxCalls
    /\ LET c == NewCall("load", 0, Nothing, "")
       IN  IF ScriptNeeded
           THEN /\ scripts' = Append(scripts, "loading")
                /\ calls' = Append(calls, [c EXCEPT !.pc = "awaitScript",
                                                    !.script = Len(scripts) + 1])
           ELSE /\ calls' = Append(calls, [c EXCEPT !.pc = "done", !.loaded = "true",
                                                    !.settled = "resolved"])
                /\ UNCHANGED scripts
    /\ UNCHANGED <<configValid, isRazorpayLoaded, authVars, upiVars, rzpVars>>

\* RazorpayService.createOrder(orderRequest), to its delay: it throws when the
\* configuration is invalid
CallCreateOrder ==
    \E amount \in Amounts, customerInfo \in Customers, orderId \in OrderIds :
        /\ Len(calls) < MaxCalls
        /\ LET c == [NewCall("order", amount, customerInfo, orderId)
                        EXCEPT !.loaded = "none"]
           IN  calls' = Append(calls,
                   IF ~configValid
                   THEN [c EXCEPT !.pc = "done", !.raised = "config",
                                  !.settled = "rejected",
                                  !.value = [error |-> ERR_CONFIG]]
                   ELSE [c EXCEPT !.pc = "orderDelay"])
        /\ UNCHANGED <<configValid, isRazorpayLoaded, scripts, authVars, upiVars, rzpVars>>

\* RazorpayService.processUPIPayment(amount, customerInfo, orderId), to its first
\* suspension
ProcessUPIPayment(amount, customerInfo, orderId, t, t2) ==
    /\ t <= t2
    /\ Len(calls) < MaxCalls
    /\ LET c == NewCall("upi", amount, customerInfo, orderId)
       IN  IF ScriptNeeded
           THEN /\ scripts' = Append(scripts, "loading")
                /\ calls' = Append(calls, [c EXCEPT !.pc = "awaitScript",
                                                    !.script = Len(scripts) + 1])
           ELSE /\ calls' = Append(calls,
                              UPIAfterScript([c EXCEPT !.loaded = "true"], TRUE, t, t2))
                /\ UNCHANGED scripts
    /\ UNCHANGED <<configValid, isRazorpayLoaded>>

\* a caller other than the UPI component makes the call
CallProcessUPIPayment ==
    \E amount \in Amounts, customerInfo \in Customers, orderId \in OrderIds,
       t \in Times, t2 \in Times :
        /\ ProcessUPIPayment(amount, customerInfo, orderId, t, t2)
        /\ UNCHANGED <<authVars, upiVars, rzpVars>>

\* script.onload
ScriptOnload ==
    \E i \in 1..Len(scripts), t \in Times, t2 \in Times :
        /\ t <= t2
        /\ scripts[i] = "loading"
        /\ scripts' = [scripts EXCEPT ![i] = "loaded"]
        /\ isRazorpayLoaded' = TRUE
        /\ LET k == Owner(i)
               c == [calls[k] EXCEPT !.loaded = "true"]
           IN  calls' = [calls EXCEPT ![k] =
                   IF c.kind = "load"
                   THEN [c EXCEPT !.pc = "done", !.settled = "resolved"]
                   ELSE UPIAfterScript(c, TRUE, t, t2)]
        /\ UNCHANGED <<configValid, authVars, upiVars, rzpVars>>

\* script.onerror
ScriptOnerror ==
    \E i \in 1..Len(scripts), t \in Times, t2 \in Times :
        /\ t <= t2
        /\ scripts[i] = "loading"
        /\ scripts' = [scripts EXCEPT ![i] = "failed"]
        /\ LET k == Owner(i)
               c == [calls[k] EXCEPT !.loaded = "false"]
           IN  calls' = [calls EXCEPT ![k] =
                   IF c.kind = "load"
                   THEN [c EXCEPT !.pc = "done", !.settled = "resolved"]
                   ELSE UPIAfterScript(c, FALSE, t, t2)]
        /\ UNCHANGED <<configValid, isRazorpayLoaded, authVars, upiVars, rzpVars>>

\* new Razorpay(...) or razorpay.open() throws inside the promise executor: the
\* promise rejects, and it is returned without await, so the catch block is not run
GatewayThrows(c, gateway, t, t2) ==
    [c EXCEPT !.pc = "done", !.raised = gateway, !.settled = "rejected",
              !.value = [error |-> IF gateway = "constructorThrows"
                                   THEN ERR_CONSTRUCTOR ELSE ERR_OPEN]]

\* createOrder's delay has passed: the order is returned and the modal is opened
OrderDelayElapsed ==
    \E k \in 1..Len(calls), t \in Times, r \in PayRands, t2 \in Times,
       gateway \in Gateways :
        /\ t <= t2
        /\ calls[k].pc = "orderDelay"
        /\ LET c == [calls[k] EXCEPT !.order = MockOrder(OrderRequest(calls[k]), t, r, t2)]
           IN  calls' = [calls EXCEPT ![k] =
                   IF c.kind = "order"
                   THEN [c EXCEPT !.pc = "done", !.settled = "resolved",
                                  !.value = c.order]
                   ELSE IF gateway = "opens"
                   THEN [c EXCEPT !.pc = "modal", !.modal = "open"]
                   ELSE GatewayThrows(c, gateway, t, t2)]
        /\ UNCHANGED <<configValid, isRazorpayLoaded, scripts, authVars, upiVars, rzpVars>>

\* the gateway reports the payment complete. An open modal ends in one of two
\* ways, completion (handler) or dismissal (modal.ondismiss); the promise is
\* settled by the first callback.
ModalHandler ==
    \E k \in 1..Len(calls), t \in Times, r \in PayRands, t2 \in Times :
        /\ t <= t2
        /\ calls[k].pc = "modal"
        /\ calls' = [calls EXCEPT ![k] =
                [@ EXCEPT !.pc = "done", !.modal = "completed", !.settled = "resolved",
                          !.value = HandlerResult(calls[k], t, r, t2)]]
        /\ UNCHANGED <<configValid, isRazorpayLoaded, scripts, authVars, upiVars, rzpVars>>

\* the user dismisses the modal
ModalDismiss ==
    \E k \in 1..Len(calls), t \in Times, t2 \in Times :
        /\ t <= t2
        /\ calls[k].pc = "modal"
        /\ calls' = [calls EXCEPT ![k] = DismissSettles(calls[k], t, t2)]
        /\ UNCHANGED <<configValid, isRazorpayLoaded, scripts, authVars, upiVars, rzpVars>>

\* RazorpayService.processCODPayment(amount, customerInfo, orderId), to its delay
CallProcessCODPayment ==
    \E amount \in Amounts, customerInfo \in Customers, orderId \in OrderIds :
        /\ Len(calls) < MaxCalls
        /\ calls' = Append(calls, [NewCall("cod", amount, customerInfo, orderId)
                                      EXCEPT !.pc = "codDelay", !.loaded = "none"])
        /\ UNCHANGED <<configValid, isRazorpayLoaded, scripts, authVars, upiVars, rzpVars>>

\* processCODPayment's delay has passed
CODDelayElapsed ==
    \E k \in 1..Len(calls), t \in Times, r \in PayRands, t2 \in Times :
        /\ t <= t2
        /\ calls[k].pc = "codDelay"
        /\ calls' = [calls EXCEPT ![k] =
                [@ EXCEPT !.pc = "done", !.settled = "resolved",
                          !.value = CODResult(calls[k], t, r, t2)]]
        /\ UNCHANGED <<configValid, isRazorpayLoaded, scripts, authVars, upiVars, rzpVars>>

\* a page that has made no call yet
PayIdle ==
    /\ isRazorpayLoaded = FALSE
    /\ scripts = <<>>
    /\ calls = <<>>

InitPay ==
    /\ configValid \in BOOLEAN
    /\ PayIdle

NextPay ==
    \/ CallLoadRazorpayScript
    \/ CallCreateOrder
    \/ CallProcessUPIPayment
    \/ ScriptOnload
    \/ ScriptOnerror
    \/ OrderDelayElapsed
    \/ ModalHandler
    \/ ModalDismiss
    \/ CallProcessCODPayment
    \/ CODDelayElapsed

\* ------------------------------------------------------------------------
\* StreamlinedUPIPayment: payment mode and QR countdown
\* ------------------------------------------------------------------------
\* useState(180): the seconds a QR code is valid
QR_SECONDS == 180

\* the data URL QRCode.toDataURL answers with
QR_URL == "data:image/png;base64,qr"
ERR_QR == "Failed to generate Razorpay QR code"

InitUPI ==
    /\ paymentMode = "selection"
    /\ qrCodeUrl = ""
    /\ timer = QR_SECONDS
    /\ isExpired = FALSE
    /\ interval = FALSE
    /\ qrPending = 0
    /\ ticks = 0
    /\ errors = 0
    /\ leftHow = {}
    /\ upiProcessing = FALSE
    /\ upiAttempts = <<>>

\* onClick={() => setPaymentMode('apps')}
SelectApps ==
    /\ paymentMode = "selection"
    /\ paymentMode' = "apps"
    /\ UNCHANGED <<qrCodeUrl, timer, isExpired, interval, qrPending, ticks, errors, leftHow, upiProcessing, upiAttempts>>
    /\ UNCHANGED <<authVars, payVars, rzpVars>>

\* mutant: the QR button is offered in apps mode as well
SelectQR_FromApps ==
    /\ paymentMode \in {"selection", "apps"}
    /\ qrPending < MaxQrPending
    /\ paymentMode' = "qr"
    /\ qrPending' = qrPending + 1
    /\ interval' = TRUE
    /\ ticks' = 0
    /\ UNCHANGED <<qrCodeUrl, timer, isExpired, errors, leftHow, upiProcessing, upiAttempts>>
    /\ UNCHANGED <<authVars, payVars, rzpVars>>

\* onClick={() => setPaymentMode('qr')}, and the effect that runs when paymentMode
\* has become 'qr': generateRazorpayQR() is started and the interval is set
SelectQR ==
    /\ paymentMode = "selection"
    /\ qrPending < MaxQrPending
    /\ paymentMode' = "qr"
    /\ qrPending' = qrPending + 1
    /\ interval' = TRUE
    /\ ticks' = 0
    /\ UNCHANGED <<qrCodeUrl, timer, isExpired, errors, leftHow, upiProcessing, upiAttempts>>
    /\ UNCHANGED <<authVars, payVars, rzpVars>>

\* the updater given to setTimer: the next value of the timer
TimerAfterTick(prev) == IF prev <= 1 THEN 0 ELSE prev - 1

\* mutant: the countdown is stopped one tick late, when the timer is already 0
TickExpires_Late(prev) == prev <= 0

\* the updater's test: this tick clears the interval and sets isExpired
TickExpires(prev) == prev <= 1

\* one run of the interval's callback
Tick ==
    /\ interval
    /\ timer' = TimerAfterTick(timer)
    /\ isExpired' = IF TickExpires(timer) THEN TRUE ELSE isExpired
    /\ interval' = IF TickExpires(timer) THEN FALSE ELSE interval
    /\ ticks' = ticks + 1
    /\ UNCHANGED <<paymentMode, qrCodeUrl, qrPending, errors, leftHow, upiProcessing, upiAttempts>>
    /\ UNCHANGED <<authVars, payVars, rzpVars>>

\* QRCode.toDataURL answers: setQrCodeUrl(url)
QRGenerated ==
    /\ qrPending > 0
    /\ qrPending' = qrPending - 1
    /\ qrCodeUrl' = QR_URL
    /\ UNCHANGED <<paymentMode, timer, isExpired, interval, ticks, errors, leftHow, upiProcessing, upiAttempts>>
    /\ UNCHANGED <<authVars, payVars, rzpVars>>

\* QRCode.toDataURL fails: onPaymentError('Failed to generate Razorpay QR code')
QRFailed ==
    /\ qrPending > 0
    /\ qrPending' = qrPending - 1
    /\ errors' = IF errors < MaxQrPending THEN errors + 1 ELSE errors
    /\ UNCHANGED <<paymentMode, qrCodeUrl, timer, isExpired, interval, ticks, leftHow, upiProcessing, upiAttempts>>
    /\ UNCHANGED <<authVars, payVars, rzpVars>>

\* the history entry of leaving the current mode
LeftHowAfterReset ==
    IF paymentMode # "qr" THEN leftHow
    ELSE leftHow \cup {IF isExpired THEN "expired" ELSE "partway"}

\* mutant: the effect has no cleanup, the interval keeps running after the reset
ResetToSelection_NoCleanup ==
    /\ paymentMode \in {"apps", "qr"}
    /\ paymentMode' = "selection"
    /\ isExpired' = FALSE
    /\ timer' = QR_SECONDS
    /\ qrCodeUrl' = ""
    /\ leftHow' = LeftHowAfterReset
    /\ UNCHANGED <<interval, qrPending, ticks, errors, upiProcessing, upiAttempts>>
    /\ UNCHANGED <<authVars, payVars, rzpVars>>

\* resetToSelection (Back, Generate New QR Code), and the cleanup of the effect,
\* which clears the interval when paymentMode changes
ResetToSelection ==
    /\ paymentMode \in {"apps", "qr"}
    /\ paymentMode' = "selection"
    /\ isExpired' = FALSE
    /\ timer' = QR_SECONDS
    /\ qrCodeUrl' = ""
    /\ interval' = FALSE
    /\ leftHow' = LeftHowAfterReset
    /\ UNCHANGED <<qrPending, ticks, errors, upiProcessing, upiAttempts>>
    /\ UNCHANGED <<authVars, payVars, rzpVars>>

\* the amount and orderId props of the component, and the customerInfo it
\* passes to the gateway
UPI_AMOUNT == CHOOSE amount \in Amounts : TRUE
UPI_ORDER_ID == CHOOSE orderId \in OrderIds : TRUE
UPI_CUSTOMER == CHOOSE c \in Customers : TRUE

\* a payment attempt of the component: the handler that awaits, the
\* RazorpayService call it awaits (0: none), and the callbacks it has invoked
NewUPIAttempt(kind, call) ==
    [kind |-> kind, call |-> call, pc |-> "awaiting", successes |-> 0, errors |-> 0]

\* what handleUPIAppClick does with the settled promise of processUPIPayment:
\* onPaymentSuccess for a result with success true, onPaymentError otherwise
\* and in the catch block
AppClickCallback(c) ==
    IF c.settled = "resolved" /\ c.value.success THEN "success" ELSE "error"

\* a click on a UPI app button, enabled while isProcessing is false:
\* handleUPIAppClick to its await of RazorpayService.processUPIPayment
HandleUPIAppClick ==
    \E t \in Times, t2 \in Times :
        /\ paymentMode = "apps"
        /\ ~upiProcessing
        /\ Len(upiAttempts) < MaxAttempts
        /\ ProcessUPIPayment(UPI_AMOUNT, UPI_CUSTOMER, UPI_ORDER_ID, t, t2)
        /\ upiProcessing' = TRUE
        /\ upiAttempts' = Append(upiAttempts, NewUPIAttempt("app", Len(calls) + 1))
        /\ UNCHANGED <<paymentMode, qrCodeUrl, timer, isExpired, interval, qrPending,
                       ticks, errors, leftHow>>
        /\ UNCHANGED <<authVars, rzpVars>>

\* the promise of processUPIPayment has settled: handleUPIAppClick resumes,
\* invokes its callback and runs its finally block
UPIAppClickResumed ==
    \E a \in 1..Len(upiAttempts) :
        /\ upiAttempts[a].kind = "app"
        /\ upiAttempts[a].pc = "awaiting"
        /\ calls[upiAttempts[a].call].settled # "pending"
        /\ upiAttempts' = [upiAttempts EXCEPT ![a] =
              IF AppClickCallback(calls[upiAttempts[a].call]) = "success"
              THEN [@ EXCEPT !.pc = "done", !.successes = @ + 1]
              ELSE [@ EXCEPT !.pc = "done", !.errors = @ + 1]]
        /\ upiProcessing' = FALSE
        /\ UNCHANGED <<paymentMode, qrCodeUrl, timer, isExpired, interval, qrPending,
                       ticks, errors, leftHow>>
        /\ UNCHANGED <<authVars, payVars, rzpVars>>

\* mutant: the completion button is not disabled while isProcessing is true
HandleQRPaymentComplete_NotDisabled ==
    /\ paymentMode = "qr"
    /\ ~isExpired
    /\ Len(upiAttempts) < MaxAttempts
    /\ upiProcessing' = TRUE
    /\ upiAttempts' = Append(upiAttempts, NewUPIAttempt("qr", 0))
    /\ UNCHANGED <<paymentMode, qrCodeUrl, timer, isExpired, interval, qrPending,
                   ticks, errors, leftHow>>
    /\ UNCHANGED <<authVars, payVars, rzpVars>>

\* a click on 'I've Completed the Payment', rendered while the QR has not
\* expired and enabled while isProcessing is false: handleQRPaymentComplete to
\* its await of the simulated delay
HandleQRPaymentComplete ==
    /\ paymentMode = "qr"
    /\ ~isExpired
    /\ ~upiProcessing
    /\ Len(upiAttempts) < MaxAttempts
    /\ upiProcessing' = TRUE
    /\ upiAttempts' = Append(upiAttempts, NewUPIAttempt("qr", 0))
    /\ UNCHANGED <<paymentMode, qrCodeUrl, timer, isExpired, interval, qrPending,
                   ticks, errors, leftHow>>
    /\ UNCHANGED <<authVars, payVars, rzpVars>>

\* the simulated delay has passed: onPaymentSuccess, and the finally block
QRVerifyDelayElapsed ==
    \E a \in 1..Len(upiAttempts) :
        /\ upiAttempts[a].kind = "qr"
        /\ upiAttempts[a].pc = "awaiting"
        /\ upiAttempts' = [upiAttempts EXCEPT ![a].pc = "done", ![a].successes = @ + 1]
        /\ upiProcessing' = FALSE
        /\ UNCHANGED <<paymentMode, qrCodeUrl, timer, isExpired, interval, qrPending,
                       ticks, errors, leftHow>>
        /\ UNCHANGED <<authVars, payVars, rzpVars>>

\* the component with the gateway adapter it calls, in the time before the
\* countdown's first tick and with a QR generator that answers
NextUPIPayments ==
    \/ SelectApps
    \/ SelectQR
    \/ QRGenerated
    \/ ResetToSelection
    \/ HandleUPIAppClick
    \/ ScriptOnload
    \/ ScriptOnerror
    \/ OrderDelayElapsed
    \/ ModalHandler
    \/ ModalDismiss
    \/ UPIAppClickResumed
    \/ HandleQRPaymentComplete
    \/ QRVerifyDelayElapsed

NextUPI ==
    \/ SelectApps
    \/ SelectQR
    \/ Tick
    \/ QRGenerated
    \/ QRFailed
    \/ ResetToSelection

\* ------------------------------------------------------------------------
\* StreamlinedRazorpayUPI: server-issued order, gateway modal, server verification
\* ------------------------------------------------------------------------
ERR_AMOUNT == "Invalid payment amount"
ERR_INIT == "Failed to initialize payment. Please try again."
ERR_LOAD == "Failed to load Razorpay script"
ERR_VERIFY == "Payment verification failed. Please contact support."
ERR_PAYMENT == "Payment failed: Unknown error"
ERR_GATEWAY == "new Razorpay(options) threw"

\* the order of the /api/payments/razorpay/create-order answer
ServerOrder(p) == [id |-> <<"order_srv", p>>, currency |-> "INR", forProps |-> p]

\* the response the gateway hands to options.handler for attempt k
PaymentResponse(k) ==
    [razorpay_order_id |-> attempts[k].order.id,
     razorpay_payment_id |-> <<"pay_", k>>,
     razorpay_signature |-> <<"sig_", k>>]

\* the result given to onPaymentSuccess
SuccessResult(response) ==
    [success |-> TRUE,
     transactionId |-> response.razorpay_payment_id,
     paymentMethod |-> "UPI via Razorpay",
     razorpayPaymentId |-> response.razorpay_payment_id,
     razorpayOrderId |-> response.razorpay_order_id,
     razorpaySignature |-> response.razorpay_signature]

OnPaymentSuccess(k, result) == [kind |-> "success", attempt |-> k, arg |-> result]
OnPaymentError(k, message) ==
    [kind |-> "error", attempt |-> k, arg |-> [message |-> message]]

\* the calls so far and one more
Called(callback) == callbacks (+) SetToBag({callback})

\* a click on the pay button: where handleRazorpayUPIPayment stands, and what
\* the gateway and the verify request have done for it
NewAttempt(pc) ==
    [pc |-> pc, handler |-> FALSE, failed |-> FALSE, verify |-> "none",
     order |-> razorpayOrder, props |-> propsVersion]

\* the gateway's modal of some attempt is open
ModalOpen == \E k \in 1..Len(attempts) : attempts[k].pc = "open"

\* mutant: the handler does not look at verifyResponse.ok
HandlerAfterFetch_IgnoreOk(ok) == "json"

\* the handler once the verify request has answered: read the body, or throw
HandlerAfterFetch(ok) == IF ok THEN "json" ELSE "throw"

\* the parent renders the component with another amount or orderId: the effect
\* runs again and sends a create-order request for the new props
PropsChanged ==
    /\ propsVersion < MaxProps
    /\ propsVersion' = propsVersion + 1
    /\ orderFetch' = orderFetch \cup {propsVersion + 1}
    /\ UNCHANGED <<razorpayOrder, isProcessing, windowRazorpay, attempts, callbacks>>
    /\ UNCHANGED <<authVars, payVars, upiVars>>

\* setRazorpayOrder(orderData.order), for the answer to the request sent for props p
OrderAfterAnswer(p) == ServerOrder(p)

\* createRazorpayOrder of the effect: a request answers OK
OrderCreated ==
    \E p \in orderFetch :
        /\ orderFetch' = orderFetch \ {p}
        /\ razorpayOrder' = OrderAfterAnswer(p)
        /\ UNCHANGED <<propsVersion, isProcessing, windowRazorpay, attempts, callbacks>>
        /\ UNCHANGED <<authVars, payVars, upiVars>>

\* a request answers non-OK or fails
OrderFailed ==
    \E p \in orderFetch :
        /\ orderFetch' = orderFetch \ {p}
        /\ callbacks' = Called(OnPaymentError(0, ERR_INIT))
        /\ UNCHANGED <<razorpayOrder, propsVersion, isProcessing, windowRazorpay, attempts>>
        /\ UNCHANGED <<authVars, payVars, upiVars>>

\* new Razorpay(options), rzp.on('payment.failed', ...), rzp.open(), and the
\* finally block: the attempt after the script has been loaded
OpenGateway(k, throws) ==
    /\ attempts' = [attempts EXCEPT ![k].pc = IF throws THEN "closed" ELSE "open"]
    /\ callbacks' = IF throws THEN Called(OnPaymentError(k, ERR_GATEWAY))
                    ELSE callbacks
    /\ isProcessing' = FALSE

\* the pay button, enabled while isProcessing is false: handleRazorpayUPIPayment
\* up to its first await that waits
ClickPay ==
    /\ ~isProcessing
    /\ Len(attempts) < MaxClicks
    /\ LET k == Len(attempts) + 1 IN
        IF razorpayOrder = Nothing
        THEN /\ attempts' = Append(attempts, NewAttempt("closed"))
             /\ callbacks' = Called(OnPaymentError(k, ERR_AMOUNT))
             /\ UNCHANGED isProcessing
        ELSE IF windowRazorpay
        THEN \E throws \in BOOLEAN :
               /\ attempts' = Append(attempts,
                                  NewAttempt(IF throws THEN "closed" ELSE "open"))
               /\ callbacks' = IF throws
                               THEN Called(OnPaymentError(k, ERR_GATEWAY))
                               ELSE callbacks
               /\ isProcessing' = FALSE
        ELSE /\ attempts' = Append(attempts, NewAttempt("loading"))
             /\ isProcessing' = TRUE
             /\ UNCHANGED callbacks
    /\ UNCHANGED <<razorpayOrder, orderFetch, propsVersion, windowRazorpay>>
    /\ UNCHANGED <<authVars, payVars, upiVars>>

\* script.onload of the component's loadRazorpayScript
RzpScriptLoaded ==
    \E k \in 1..Len(attempts), throws \in BOOLEAN :
        /\ attempts[k].pc = "loading"
        /\ windowRazorpay' = TRUE
        /\ OpenGateway(k, throws)
        /\ UNCHANGED <<razorpayOrder, orderFetch, propsVersion>>
        /\ UNCHANGED <<authVars, payVars, upiVars>>

\* script.onerror: the promise rejects, the catch block reports the message
RzpScriptFailed ==
    \E k \in 1..Len(attempts) :
        /\ attempts[k].pc = "loading"
        /\ attempts' = [attempts EXCEPT ![k].pc = "closed"]
        /\ callbacks' = Called(OnPaymentError(k, ERR_LOAD))
        /\ isProcessing' = FALSE
        /\ UNCHANGED <<razorpayOrder, orderFetch, propsVersion, windowRazorpay>>
        /\ UNCHANGED <<authVars, payVars, upiVars>>

\* the gateway's 'payment.failed' event: the modal stays open for another try
PaymentFailed ==
    \E k \in 1..Len(attempts) :
        /\ attempts[k].pc = "open"
        /\ ~attempts[k].failed
        /\ attempts' = [attempts EXCEPT ![k].failed = TRUE]
        /\ callbacks' = Called(OnPaymentError(k, ERR_PAYMENT))
        /\ isProcessing' = FALSE
        /\ UNCHANGED <<razorpayOrder, orderFetch, propsVersion, windowRazorpay>>
        /\ UNCHANGED <<authVars, payVars, upiVars>>

\* modal.ondismiss
RzpModalDismissed ==
    \E k \in 1..Len(attempts) :
        /\ attempts[k].pc = "open"
        /\ attempts' = [attempts EXCEPT ![k].pc = "closed"]
        /\ isProcessing' = FALSE
        /\ UNCHANGED <<razorpayOrder, orderFetch, propsVersion, windowRazorpay, callbacks>>
        /\ UNCHANGED <<authVars, payVars, upiVars>>

\* options.handler(response): the verify request is sent
HandlerCalled ==
    \E k \in 1..Len(attempts) :
        /\ attempts[k].pc = "open"
        /\ attempts' = [attempts EXCEPT ![k].pc = "verifying", ![k].handler = TRUE,
                                        ![k].verify = "sent"]
        /\ UNCHANGED <<razorpayOrder, orderFetch, propsVersion, isProcessing, windowRazorpay, callbacks>>
        /\ UNCHANGED <<authVars, payVars, upiVars>>

\* the handler's catch block
VerifyCaught(k, how) ==
    /\ attempts' = [attempts EXCEPT ![k].pc = "closed", ![k].verify = how]
    /\ callbacks' = Called(OnPaymentError(k, ERR_VERIFY))
    /\ isProcessing' = FALSE

\* the verify request answers, with verifyResponse.ok true or false
VerifyAnswered ==
    \E k \in 1..Len(attempts), ok \in BOOLEAN :
        /\ attempts[k].pc = "verifying"
        /\ IF HandlerAfterFetch(ok) = "json"
           THEN /\ attempts' = [attempts EXCEPT ![k].pc = "json",
                                  ![k].verify = IF ok THEN "ok" ELSE "notOk"]
                /\ UNCHANGED <<isProcessing, callbacks>>
           ELSE VerifyCaught(k, "notOk")
        /\ UNCHANGED <<razorpayOrder, orderFetch, propsVersion, windowRazorpay>>
        /\ UNCHANGED <<authVars, payVars, upiVars>>

\* the verify request fails: fetch rejects
VerifyFailed ==
    \E k \in 1..Len(attempts) :
        /\ attempts[k].pc = "verifying"
        /\ VerifyCaught(k, "failed")
        /\ UNCHANGED <<razorpayOrder, orderFetch, propsVersion, windowRazorpay>>
        /\ UNCHANGED <<authVars, payVars, upiVars>>

\* verifyResponse.json() answers: setIsProcessing(false), onPaymentSuccess(result)
VerifyBodyRead ==
    \E k \in 1..Len(attempts) :
        /\ attempts[k].pc = "json"
        /\ attempts' = [attempts EXCEPT ![k].pc = "closed"]
        /\ callbacks' = Called(
                               OnPaymentSuccess(k, SuccessResult(PaymentResponse(k))))
        /\ isProcessing' = FALSE
        /\ UNCHANGED <<razorpayOrder, orderFetch, propsVersion, windowRazorpay>>
        /\ UNCHANGED <<authVars, payVars, upiVars>>

\* verifyResponse.json() rejects: the body is not JSON
VerifyBodyFailed ==
    \E k \in 1..Len(attempts) :
        /\ attempts[k].pc = "json"
        /\ VerifyCaught(k, "badBody")
        /\ UNCHANGED <<razorpayOrder, orderFetch, propsVersion, windowRazorpay>>
        /\ UNCHANGED <<authVars, payVars, upiVars>>

\* the component is not mounted
RzpIdle ==
    /\ razorpayOrder = Nothing
    /\ orderFetch = {}
    /\ propsVersion = 1
    /\ isProcessing = FALSE
    /\ windowRazorpay = FALSE
    /\ attempts = <<>>
    /\ callbacks = EmptyBag

\* the component after its first render: the mount effect has sent create-order
InitRzp ==
    /\ razorpayOrder = Nothing
    /\ orderFetch = {1}
    /\ propsVersion = 1
    /\ isProcessing = FALSE
    /\ windowRazorpay \in BOOLEAN
    /\ attempts = <<>>
    /\ callbacks = EmptyBag

NextRzp ==
    \/ PropsChanged
    \/ OrderCreated
    \/ OrderFailed
    \/ ClickPay
    \/ RzpScriptLoaded
    \/ RzpScriptFailed
    \/ PaymentFailed
    \/ RzpModalDismissed
    \/ HandlerCalled
    \/ VerifyAnswered
    \/ VerifyFailed
    \/ VerifyBodyRead
    \/ VerifyBodyFailed

\* ------------------------------------------------------------------------
\* Specifications
\* ------------------------------------------------------------------------
NextAuth == DoRegister \/ DoLogin \/ DoLogout

\* the authentication store, on a page that makes no payment
InitAuthPage == InitAuth /\ configValid = TRUE /\ PayIdle /\ InitUPI /\ RzpIdle
SpecAuth == InitAuthPage /\ [][NextAuth]_vars

\* the authentication store over a storage that may throw and may hold text
\* that MockAuthService did not write
NextAuthFaulty ==
    \/ DoRegisterFaulty
    \/ DoLoginFaulty
    \/ DoLogoutFaulty
    \/ DoUserExists
    \/ DoGetCurrentUser
    \/ CorruptUsers
    \/ CorruptCurrent
SpecAuthFaulty == InitAuthPage /\ [][NextAuthFaulty]_vars

\* the payment adapter, whatever validateRazorpayConfig answers
InitPayPage == InitAuth /\ InitPay /\ InitUPI /\ RzpIdle
SpecPay == InitPayPage /\ [][NextPay]_vars

\* the UPI component's modes and countdown
InitUPIPage == InitAuth /\ configValid = TRUE /\ PayIdle /\ InitUPI /\ RzpIdle
SpecUPI == InitUPIPage /\ [][NextUPI]_vars

\* the UPI component's payment attempts, over the gateway adapter; every await
\* whose promise has settled resumes, and the simulated delay passes
InitUPIPaymentsPage == InitAuth /\ InitPay /\ InitUPI /\ RzpIdle
SpecUPIPayments ==
    /\ InitUPIPaymentsPage
    /\ [][NextUPIPayments]_vars
    /\ WF_vars(UPIAppClickResumed)
    /\ WF_vars(QRVerifyDelayElapsed)

\* the server-verified UPI component
InitRzpPage == InitAuth /\ configValid = TRUE /\ PayIdle /\ InitUPI /\ InitRzp
SpecRzp == InitRzpPage /\ [][NextRzp]_vars

\* ------------------------------------------------------------------------
\* Claims about MockAuthService
\* ------------------------------------------------------------------------
\* two characters that are the same letter, whatever their case
SameLetter(c, d) ==
    \/ c = d
    \/ c \in Upper /\ Lower[c] = d
    \/ d \in Upper /\ Lower[d] = c

\* two strings equal ignoring letter case
EqIgnoreCase(s1, s2) ==
    /\ Len(s1) = Len(s2)
    /\ \A i \in 1..Len(s1) : SameLetter(s1[i], s2[i])

\* the stored user list
StoredList == IF usersItem = Null THEN <<>> ELSE usersItem.val

\* C1: once register(e1, ...) has succeeded, every later register(e2, ...) with
\* e2 equal to e1 ignoring letter case throws 'User with this email already exists'.
C1_DuplicateRegisterFails ==
    (/\ authLast.op = "register"
     /\ \E e1 \in authLast.priorRegs : EqIgnoreCase(e1, authLast.email))
    => (authLast.outcome = "throw" /\ authLast.error = ERR_EXISTS)

\* a register call was refused for an email that differs in case from the one
\* registered before
C1_Witness ==
    /\ authLast.op = "register"
    /\ authLast.outcome = "throw"
    /\ authLast.email \notin authLast.priorRegs
    /\ \E e1 \in authLast.priorRegs : EqIgnoreCase(e1, authLast.email)

\* C2: no two records of the stored user list have emails that are equal
\* ignoring letter case.
C2_EmailsUnique ==
    \A i, j \in 1..Len(StoredList) :
        i # j => ~EqIgnoreCase(StoredList[i].email, StoredList[j].email)

\* the list holds two records, and a register for an email of the list in
\* another case has just been refused
C2_Witness ==
    /\ Len(StoredList) = 2
    /\ authLast.op = "register"
    /\ authLast.outcome = "throw"
    /\ \A i \in 1..2 : StoredList[i].email # authLast.email

\* C3: login(email, password) succeeds exactly when the stored list holds a
\* record whose email equals email ignoring case and whose password equals
\* password exactly; in every other case it throws 'Invalid email or password'.
C3_LoginExactly ==
    authLast.op = "login" =>
        LET match == \E i \in 1..Len(StoredList) :
                        /\ EqIgnoreCase(StoredList[i].email, authLast.email)
                        /\ StoredList[i].password = authLast.password
        IN  /\ authLast.outcome = "ok" <=> match
            /\ authLast.outcome = "ok" =>
                  /\ EqIgnoreCase(authLast.ret.email, authLast.email)
                  /\ authLast.ret.password = authLast.password
            /\ authLast.outcome # "ok" =>
                  (authLast.outcome = "throw" /\ authLast.error = ERR_INVALID)

\* a login with the right email, in another case, and a password that differs
\* from the stored one only in case was refused
C3_Witness ==
    /\ authLast.op = "login"
    /\ authLast.outcome = "throw"
    /\ \E i \in 1..Len(StoredList) :
          /\ EqIgnoreCase(StoredList[i].email, authLast.email)
          /\ StoredList[i].email # authLast.email
          /\ StoredList[i].password # authLast.password

\* C4: right after a successful register or login, getCurrentUser returns the
\* projection (id, email, name, avatar, phone) of the record the call returned,
\* whoever was logged in before.
C4_SessionReflectsUser ==
    (authLast.op \in {"register", "login"} /\ authLast.outcome = "ok") =>
        /\ getCurrentUser # Null
        /\ Field(getCurrentUser, "id") = Field(authLast.ret, "id")
        /\ Field(getCurrentUser, "email") = Field(authLast.ret, "email")
        /\ Field(getCurrentUser, "name") = Field(authLast.ret, "fullName")
        /\ Field(getCurrentUser, "avatar") = Field(authLast.ret, "avatar")
        /\ Field(getCurrentUser, "mobileNumber") = Field(authLast.ret, "mobileNumber")
        /\ DOMAIN getCurrentUser \subseteq {"id", "email", "name", "avatar", "mobileNumber"}

\* a login succeeded while another user was logged in
C4_Witness ==
    /\ authLast.op = "login"
    /\ authLast.outcome = "ok"
    /\ authLast.priorCurrent # Null
    /\ authLast.priorCurrent.val.email # authLast.ret.email
    /\ getCurrentUser.email = authLast.ret.email

\* C5: after logout getCurrentUser returns null, and keeps returning null until
\* the next successful register or login.
C5_LogoutClearsSession ==
    /\ authLast.op = "logout" => sinceLogout
    /\ sinceLogout => getCurrentUser = Null

\* a user was logged in, logged out, and a login has failed since
C5_Witness ==
    /\ sinceLogout
    /\ authLast.op = "login"
    /\ authLast.outcome = "throw"
    /\ Len(StoredList) > 0
    /\ getCurrentUser = Null

\* ------------------------------------------------------------------------
\* Claims about RazorpayService
\* ------------------------------------------------------------------------
\* C6: when the user dismisses the modal opened by processUPIPayment, the
\* returned promise resolves, never rejects, with success:false, errorMessage
\* 'Payment cancelled by user' and a transaction id prefixed UPI_CANCELLED_.
C6_DismissResolvesCancelled ==
    \A k \in 1..Len(calls) :
        calls[k].modal = "dismissed" =>
            /\ calls[k].settled = "resolved"
            /\ calls[k].value.success = FALSE
            /\ calls[k].value.errorMessage = "Payment cancelled by user"
            /\ calls[k].value.transactionId[1] = "UPI_CANCELLED_"

\* two modals were open at once and one of them has been dismissed
C6_Witness ==
    \E k, m \in 1..Len(calls) :
        /\ calls[k].kind = "upi"
        /\ calls[k].modal = "dismissed"
        /\ calls[m].modal \in {"open", "completed"}

\* C7: processUPIPayment never rejects: every exception raised during its run
\* (script load failure, invalid configuration, the gateway object's constructor
\* or open() throwing) ends in a resolved result with success:false and a
\* non-empty errorMessage.
C7_NeverRejects ==
    \A k \in 1..Len(calls) :
        calls[k].kind = "upi" =>
            /\ calls[k].settled # "rejected"
            /\ calls[k].raised # "none" =>
                  /\ calls[k].settled = "resolved"
                  /\ calls[k].value.success = FALSE
                  /\ calls[k].value.errorMessage # ""

\* C8: processCODPayment resolves, for every amount, customer and order id and in
\* every state of the script loader, with success:true, a transaction id prefixed
\* COD_, paymentMethod 'Cash on Delivery' and the requested amount; it never fails.
C8_CODAlwaysSucceeds ==
    \A k \in 1..Len(calls) :
        calls[k].kind = "cod" =>
            /\ calls[k].settled # "rejected"
            /\ calls[k].raised = "none"
            /\ calls[k].pc = "done" =>
                  /\ calls[k].settled = "resolved"
                  /\ calls[k].value.success = TRUE
                  /\ calls[k].value.transactionId[1] = "COD_"
                  /\ calls[k].value.paymentMethod = "Cash on Delivery"
                  /\ calls[k].value.amount = calls[k].amount
                  /\ "errorMessage" \notin DOMAIN calls[k].value

\* a COD payment has resolved on a page whose gateway script failed to load
C8_Witness ==
    \E k \in 1..Len(calls) :
        /\ calls[k].kind = "cod"
        /\ calls[k].pc = "done"
        /\ ~isRazorpayLoaded
        /\ \E i \in 1..Len(scripts) : scripts[i] = "failed"

\* the script elements appended by the calls made so far
Appended(n) == {k \in 1..n : calls[k].script # 0}

\* C10: after any loadRazorpayScript call has resolved true, every later call
\* resolves true without appending another script element, so the number of
\* injected script elements no longer grows.
C10_LoadIdempotentOnceLoaded ==
    /\ \A k \in 1..Len(calls) :
          calls[k].afterTrue =>
              /\ calls[k].script = 0
              /\ calls[k].kind \in {"load", "upi"} => calls[k].loaded = "true"
              /\ calls[k].kind = "load" => calls[k].settled = "resolved"
    /\ Len(scripts) = Cardinality(Appended(Len(calls)))
    /\ \A k \in 1..Len(calls) :
          calls[k].afterTrue => Appended(Len(calls)) = Appended(k - 1)

\* a call made after an earlier one had resolved true has resolved true itself
C10_Witness ==
    \E k \in 1..Len(calls) :
        /\ calls[k].kind = "load"
        /\ calls[k].afterTrue
        /\ calls[k].settled = "resolved"
        /\ calls[k].loaded = "true"
        /\ Len(scripts) = 1

\* ------------------------------------------------------------------------
\* Claims about StreamlinedUPIPayment
\* ------------------------------------------------------------------------
\* C9: in QR mode the timer goes down by one per tick from 180, reaches 0 after
\* exactly 180 ticks, isExpired becomes true at that tick, and from then on the
\* timer stays at 0: no further tick is delivered and the timer is never negative.
C9_CountdownReachesZero ==
    /\ timer >= 0
    /\ paymentMode = "qr" =>
          /\ ticks <= 180
          /\ timer = 180 - ticks
          /\ isExpired <=> ticks = 180
          /\ interval <=> ticks < 180

\* the QR code has expired: 180 ticks were delivered and the timer is 0
C9_Witness ==
    /\ paymentMode = "qr"
    /\ ticks = 180
    /\ timer = 0
    /\ isExpired
    /\ ~interval

\* C11: concurrent loadRazorpayScript calls are not coalesced: every call made
\* before the load event of an earlier script has fired appends its own script
\* element, with its own handlers, so two injected elements can exist at once.
C11_LoadsNotCoalesced ==
    \A k \in 1..Len(calls) :
        (calls[k].kind \in {"load", "upi"} /\ ~calls[k].flagAtCall) =>
            /\ calls[k].script \in 1..Len(scripts)
            /\ \A m \in 1..Len(calls) : m # k => calls[m].script # calls[k].script

\* two calls were made before any load event: two script elements are loading
C11_Witness ==
    /\ Len(scripts) = 2
    /\ scripts[1] = "loading"
    /\ scripts[2] = "loading"
    /\ \E k, m \in 1..Len(calls) :
          /\ calls[k].script = 1 /\ calls[k].pc = "awaitScript"
          /\ calls[m].script = 2 /\ calls[m].pc = "awaitScript"

\* C13: createOrder, when the configuration is valid, returns an order with
\* status 'created', amount and amount_due 100 times the requested amount,
\* amount_paid 0, attempts 0 and the request's currency and receipt; when the
\* configuration is invalid it throws 'Razorpay configuration is invalid' and
\* returns no order.
C13_OrderInMinorUnits ==
    \A k \in 1..Len(calls) :
        /\ calls[k].order # Nothing =>
              /\ configValid
              /\ calls[k].order.status = "created"
              /\ calls[k].order.amount = 100 * calls[k].amount
              /\ calls[k].order.amount_due = 100 * calls[k].amount
              /\ calls[k].order.amount_paid = 0
              /\ calls[k].order.attempts = 0
              /\ calls[k].order.currency = "INR"
              /\ calls[k].order.receipt = calls[k].orderId
        /\ calls[k].kind = "order" =>
              IF configValid
              THEN /\ calls[k].settled # "rejected"
                   /\ calls[k].pc = "done" =>
                         calls[k].settled = "resolved" /\ calls[k].value = calls[k].order
              ELSE /\ calls[k].settled = "rejected"
                   /\ calls[k].value = [error |-> "Razorpay configuration is invalid"]
                   /\ calls[k].order = Nothing

\* createOrder has returned the order for a request of 250 rupees
C13_Witness ==
    \E k \in 1..Len(calls) :
        /\ calls[k].kind = "order"
        /\ calls[k].amount = 250
        /\ calls[k].settled = "resolved"
        /\ calls[k].value.amount = 25000
        /\ calls[k].value.amount_due = 25000

\* C16: processUPIPayment runs its steps in order: createOrder is started only
\* after the script load has resolved true, and the modal is opened only after
\* createOrder has returned an order; when the script load resolves false the
\* result is success:false with 'Failed to load Razorpay payment gateway', and
\* neither order creation nor the modal is started.
C16_StepsInOrder ==
    \A k \in 1..Len(calls) :
        calls[k].kind = "upi" =>
            /\ (calls[k].pc = "orderDelay" \/ calls[k].order # Nothing) =>
                  calls[k].loaded = "true"
            /\ calls[k].modal # "none" =>
                  calls[k].loaded = "true" /\ calls[k].order # Nothing
            /\ calls[k].loaded = "false" =>
                  /\ calls[k].pc = "done"
                  /\ calls[k].settled = "resolved"
                  /\ calls[k].value.success = FALSE
                  /\ calls[k].value.errorMessage = "Failed to load Razorpay payment gateway"
                  /\ calls[k].order = Nothing
                  /\ calls[k].modal = "none"

\* one payment has failed on its script load while another has its modal open
C16_Witness ==
    \E k, m \in 1..Len(calls) :
        /\ calls[k].kind = "upi" /\ calls[k].loaded = "false" /\ calls[k].pc = "done"
        /\ calls[m].kind = "upi" /\ calls[m].modal = "open"

\* C12: whatever the storage does (getItem, setItem or removeItem throwing, or a
\* stored value that does not parse or is not a user list), register, login,
\* logout, userExists and getCurrentUser raise no error other than 'User with
\* this email already exists' and 'Invalid email or password'.
C12_NoStorageErrorSurfaces ==
    authLast.outcome = "throw" =>
        authLast.error \in {"User with this email already exists",
                            "Invalid email or password"}

C19_SessionReferencesStoredUser ==
    currentItem # Null =>
        \E i \in 1..Len(StoredList) : StoredList[i].id = getCurrentUser.id

\* the session points at a record that is not the last one stored: a login
\* moved it back to an earlier registration
C19_Witness ==
    /\ currentItem # Null
    /\ Len(StoredList) >= 2
    /\ getCurrentUser.id = StoredList[1].id
    /\ getCurrentUser.id # StoredList[Len(StoredList)].id

\* C20: after register(e, p, ...) has returned successfully, every later
\* login(e2, p) with e2 equal to e ignoring case succeeds and returns the record
\* with the id that register returned.
C20_RegistrationDurableForLogin ==
    \A reg \in regLog :
        (/\ authLast.op = "login"
         /\ EqIgnoreCase(authLast.email, reg.email)
         /\ authLast.password = reg.password)
        => (/\ authLast.outcome = "ok"
            /\ authLast.ret.id = reg.id)

\* a login in another letter case than the registration's succeeded, after a
\* logout and a further registration
C20_Witness ==
    /\ authLast.op = "login"
    /\ authLast.outcome = "ok"
    /\ Cardinality(regLog) >= 2
    /\ \E reg \in regLog :
        /\ reg.id = authLast.ret.id
        /\ reg.email # authLast.email
        /\ reg.id = StoredList[1].id

\* C17: paymentMode starts at 'selection', is always one of selection, apps and
\* qr, and changes only from selection to apps, from selection to qr, from apps
\* to selection and from qr to selection: never between apps and qr directly.
C17_ModeIsThreeWayToggle ==
    /\ paymentMode = "selection"
    /\ [](paymentMode \in {"selection", "apps", "qr"})
    /\ [][ paymentMode' # paymentMode =>
             <<paymentMode, paymentMode'>> \in
                 { <<"selection", "apps">>, <<"selection", "qr">>,
                   <<"apps", "selection">>, <<"qr", "selection">> } ]_vars

\* apps mode, entered after a QR mode in which the countdown had ticked: all
\* four transitions have been taken
C17_Witness ==
    /\ paymentMode = "apps"
    /\ ticks > 0
    /\ qrPending = MaxQrPending

\* C18: resetToSelection restores timer to 180, isExpired to false and qrCodeUrl
\* to empty and stops the countdown; every entry into QR mode starts a countdown
\* at 180, not expired, whether the QR before had expired or was left part-way;
\* no countdown runs outside QR mode, and the timer only ever goes down by one,
\* by a tick of the countdown of the current QR mode.
C18_ResetRestartsCountdown ==
    /\ [](interval => paymentMode = "qr")
    /\ [][ /\ (paymentMode # "selection" /\ paymentMode' = "selection") =>
                 (/\ timer' = 180
                  /\ isExpired' = FALSE
                  /\ qrCodeUrl' = ""
                  /\ interval' = FALSE)
           /\ (paymentMode # "qr" /\ paymentMode' = "qr") =>
                 (/\ timer' = 180
                  /\ isExpired' = FALSE
                  /\ interval' = TRUE
                  /\ ticks' = 0)
           /\ timer' < timer =>
                 (/\ paymentMode = "qr" /\ paymentMode' = "qr"
                  /\ interval
                  /\ timer' = timer - 1
                  /\ timer' = 180 - ticks') ]_vars

\* a countdown is under way in a QR mode entered after one QR was left part-way
\* and another had expired
C18_Witness ==
    /\ paymentMode = "qr"
    /\ leftHow = {"partway", "expired"}
    /\ ticks = 2
    /\ timer = 178
    /\ interval

\* ------------------------------------------------------------------------
\* Claims about StreamlinedRazorpayUPI
\* ------------------------------------------------------------------------
\* the onPaymentSuccess calls made for attempt k
SuccessCalls(k) ==
    {c \in BagToSet(callbacks) : c.kind = "success" /\ c.attempt = k}

\* the number of onPaymentError('Payment verification failed. Please contact
\* support.') calls made for attempt k
VerifyErrorCalls(k) ==
    CopiesIn([kind |-> "error", attempt |-> k,
              arg |-> [message |-> "Payment verification failed. Please contact support."]],
             callbacks)

C21_FailedCallChangesNothing ==
    [][ (authLast'.op \in {"register", "login"} /\ authLast'.outcome = "throw")
        => (usersItem' = usersItem /\ currentItem' = currentItem) ]_vars

\* a login has failed while a user was logged in, and that user still is
C21_Witness ==
    /\ authLast.op = "login"
    /\ authLast.outcome = "throw"
    /\ authLast.priorCurrent # Null
    /\ currentItem = authLast.priorCurrent
    /\ Len(StoredList) >= 2

\* ------------------------------------------------------------------------
\* Further claims about StreamlinedRazorpayUPI
\* ------------------------------------------------------------------------
\* C22: isProcessing stays true from the click on the pay button until the
\* gateway modal reports completion, failure or dismissal: while an attempt is
\* loading the script or has its modal open with nothing reported, isProcessing
\* is true, and at most one gateway modal is open.
C22_ProcessingUntilModalReports ==
    /\ \A k \in 1..Len(attempts) :
          (attempts[k].pc = "loading" \/ (attempts[k].pc = "open" /\ ~attempts[k].failed))
              => isProcessing
    /\ Cardinality({k \in 1..Len(attempts) : attempts[k].pc = "open"}) <= 1

\* C23: the order used to open the gateway modal was created for the current
\* amount and orderId props: once every create-order request has answered OK,
\* razorpayOrder is the answer to the latest request, whatever the order of the
\* answers, and no attempt that went on to the gateway took an order created
\* for props earlier than the ones it was clicked under.
C23_OrderIsForCurrentProps ==
    /\ (/\ orderFetch = {}
        /\ razorpayOrder # Nothing
        /\ \A c \in BagToSet(callbacks) :
              ~(/\ c.kind = "error"
                /\ c.arg = [message |-> "Failed to initialize payment. Please try again."]))
       => razorpayOrder.forProps = propsVersion
    /\ \A k \in 1..Len(attempts) :
          attempts[k].order # Nothing => attempts[k].order.forProps = attempts[k].props

\* ------------------------------------------------------------------------
\* Further claims about StreamlinedUPIPayment
\* ------------------------------------------------------------------------
\* the attempts whose handler has not resumed yet
AwaitingAttempts == {a \in 1..Len(upiAttempts) : upiAttempts[a].pc = "awaiting"}

\* attempt a waits for something that has happened: the gateway call has
\* settled, or it waits for the simulated delay
AttemptCanResume(a) ==
    /\ a \in AwaitingAttempts
    /\ \/ upiAttempts[a].kind = "qr"
       \/ calls[upiAttempts[a].call].settled # "pending"

\* attempt a has ended with one callback
AttemptReported(a) ==
    /\ a \in 1..Len(upiAttempts)
    /\ upiAttempts[a].pc = "done"
    /\ upiAttempts[a].successes + upiAttempts[a].errors = 1

\* C24: every started payment attempt (a UPI app click or 'I've Completed the
\* Payment') leads, once the gateway call has settled or the simulated delay
\* has passed, to exactly one invocation of exactly one of onPaymentSuccess and
\* onPaymentError; an attempt that waits has invoked neither; isProcessing is
\* true exactly while an attempt waits, so it is false again after the
\* callback, and at most one attempt waits: none is started while isProcessing
\* is true, from any mode.
C24_OneCallbackPerAttempt ==
    /\ [](/\ \A a \in 1..Len(upiAttempts) :
               IF upiAttempts[a].pc = "awaiting"
               THEN upiAttempts[a].successes = 0 /\ upiAttempts[a].errors = 0
               ELSE upiAttempts[a].successes + upiAttempts[a].errors = 1
          /\ upiProcessing <=> AwaitingAttempts # {}
          /\ Cardinality(AwaitingAttempts) <= 1)
    /\ \A a \in 1..MaxAttempts : AttemptCanResume(a) ~> AttemptReported(a)

\* an app attempt whose gateway object threw has been reported as an error, a
\* QR attempt after it as a success, and isProcessing is false again
C24_Witness ==
    /\ Len(upiAttempts) = 2
    /\ upiAttempts[1].kind = "app"
    /\ calls[upiAttempts[1].call].settled = "rejected"
    /\ upiAttempts[1].errors = 1 /\ upiAttempts[1].successes = 0
    /\ upiAttempts[2].kind = "qr"
    /\ upiAttempts[2].successes = 1 /\ upiAttempts[2].errors = 0
    /\ ~upiProcessing

====
